---- MODULE Spec2Model ----
(***************************************************************************)
(* TrustwiseCallbackHandler (src/trustwise/callback.py): the event index   *)
(* (by type, by id, sequential), the pairing of events by id, the timing   *)
(* statistics, the trace map and its rendering, and the best-effort send   *)
(* of every record to the remote log.                                      *)
(***************************************************************************)
EXTENDS Integers, Sequences, FiniteSets, TLC

VARIABLES
    _event_pairs_by_type,   \* defaultdict(list): CBEventType -> list of CBEvent
    _event_pairs_by_id,     \* defaultdict(list): id -> list of CBEvent
    _sequential_events,     \* list of CBEvent
    _cur_trace_id,          \* Optional[str]
    _trace_map,             \* the mapping object self._trace_map refers to
    print_trace_on_end,     \* constructor flag
    experiment_id,          \* the session identifier, None until set_experiment_id
    last,                   \* the handler call that completed last
    outcome,                \* how it ended: "return" or the exception raised
    ret,                    \* what it returned
    out,                    \* the lines the last rendering printed
    sink,                   \* how the last call's send to the remote log ended ("none": no send)
    inserted,               \* history: the records built by notifications since the last flush
    sent,                   \* history: the log_to_mongodb calls made since the last flush
    before,                 \* history: the handler's fields when the last call began
    pc,                     \* the notifying thread's position inside a handler
    event                   \* the CBEvent the last notification built

vars == <<_event_pairs_by_type, _event_pairs_by_id, _sequential_events,
          _cur_trace_id, _trace_map, print_trace_on_end, experiment_id,
          last, outcome, ret, out, sink, inserted, sent, before, pc, event>>

(***************************************************************************)
(* Bounds of the model.                                                    *)
(***************************************************************************)
\* at most this many records are held in the index at a time
MaxLog == 3
\* the interpreter's recursion limit, counted in nested _print_trace_map calls
RecursionLimit == 4

(***************************************************************************)
(* Values.                                                                 *)
(***************************************************************************)
None == "None"

\* CBEventType members the callers use; LLM is the one the code names
CBEventTypes == {"LLM", "CHAIN"}

BASE_TRACE_EVENT == "root"

\* event ids the callers pass to the notifications
EventIds == {"a", "b", "c"}

Payloads == {None}

TraceIds == {"query"}

\* A timestamp string in TIMESTAMP_FORMAT, "%m/%d/%Y, %H:%M:%S.%f": every
\* field is zero padded to a fixed width, so the string is the tuple of its
\* fields <<month, day, year, hour, minute, second, microsecond>> and the
\* strings compare as these tuples compare, field by field.
T1 == <<12, 31, 2023, 23, 59, 59, 0>>
T2 == <<1, 1, 2024, 0, 0, 0, 0>>
T3 == <<1, 1, 2024, 0, 0, 3, 0>>

\* the readings of datetime.now() a notification can get: the wall clock is
\* not monotonic, so a later notification may read an earlier instant
Clock == {T1, T2, T3}

CBEvent(event_type, payload, time, id_) ==
    [event_type |-> event_type, payload |-> payload, time |-> time, id_ |-> id_]

NoEvent == CBEvent(None, None, <<>>, None)

(***************************************************************************)
(* datetime.strptime(s, TIMESTAMP_FORMAT) and timedelta.total_seconds().   *)
(***************************************************************************)
\* days since 1970-01-01 of a proleptic Gregorian date
DaysFromCivil(y, m, d) ==
    LET yy  == IF m <= 2 THEN y - 1 ELSE y
        era == yy \div 400
        yoe == yy - era * 400
        mp  == IF m > 2 THEN m - 3 ELSE m + 9
        doy == (153 * mp + 2) \div 5 + d - 1
        doe == yoe * 365 + yoe \div 4 - yoe \div 100 + doy
    IN  era * 146097 + doe - 719468

\* the datetime a timestamp string parses to: (day, second of day, microsecond)
strptime(s) ==
    [days |-> DaysFromCivil(s[3], s[1], s[2]),
     secs |-> s[4] * 3600 + s[5] * 60 + s[6],
     us   |-> s[7]]

\* datetime < datetime
DatetimeLess(x, y) ==
    \/ x.days < y.days
    \/ x.days = y.days /\ x.secs < y.secs
    \/ x.days = y.days /\ x.secs = y.secs /\ x.us < y.us

\* (end - start).total_seconds(), in microseconds
TotalSeconds(end, start) ==
    ((end.days - start.days) * 86400 + (end.secs - start.secs)) * 1000000
        + (end.us - start.us)

(***************************************************************************)
(* defaultdict(list) and dict: a mapping is a function on the keys it      *)
(* holds; reading a missing key of a defaultdict inserts it with [].       *)
(***************************************************************************)
EmptyDict == [k \in {} |-> <<>>]

\* d after d[k] was evaluated on a defaultdict(list)
Touch(d, k) == IF k \in DOMAIN d THEN d ELSE d @@ (k :> <<>>)

\* d after d[k].append(e) on a defaultdict(list)
DictAppend(d, k, e) == [Touch(d, k) EXCEPT ![k] = Append(@, e)]

\* the list a read-only look at key k finds (nothing inserted)
Bucket(d, k) == IF k \in DOMAIN d THEN d[k] ELSE <<>>

(***************************************************************************)
(* The three appends of a notification (on_event_start, on_event_end).     *)
(***************************************************************************)
\* self._event_pairs_by_type[event.event_type].append(event)
AppendByType(by_type, e) == DictAppend(by_type, e.event_type, e)

\* a slip of AppendById: the bucket is assigned, not appended to
AppendById_assign(by_id, e) == [Touch(by_id, e.id_) EXCEPT ![e.id_] = <<e>>]

\* self._event_pairs_by_id[event.id_].append(event)
AppendById(by_id, e) == DictAppend(by_id, e.id_, e)

\* a slip of AppendSequential: the record is put in front
AppendSequential_front(events, e) == <<e>> \o events

\* self._sequential_events.append(event)
AppendSequential(events, e) == Append(events, e)

(***************************************************************************)
(* log_to_mongodb: the payload is built, serialised and posted inside one  *)
(* try block; fault is what goes wrong in it, if anything.                 *)
(***************************************************************************)
\* "ValidationError": LoggingPayload(...) or model_dump() rejects the record;
\* "ConnectionError": requests.post fails; "HTTPError": raise_for_status()
SendFaults == {"none", "ValidationError", "ConnectionError", "HTTPError"}

\* the subclasses of requests.exceptions.RequestException among the faults
RequestExceptions == {"ConnectionError", "HTTPError"}

\* a slip of log_to_mongodb: only "except RequestException", no "except Exception"
log_to_mongodb_narrow(fault) ==
    IF fault = "none" THEN None
    ELSE IF fault \in RequestExceptions THEN None
    ELSE fault

\* the exception that leaves log_to_mongodb (None: it returns)
log_to_mongodb(fault) ==
    IF fault = "none" THEN None
    ELSE IF fault \in RequestExceptions THEN None   \* except RequestException: logged
    ELSE None                                       \* except Exception: logged

\* what the remote log saw of the attempt
SinkResult(fault) == IF fault = "none" THEN "logged" ELSE fault

\* one call log_to_mongodb(event): the record it was given, and whether that
\* record was in the three views when the call was made
SendAttempt(e, by_type, by_id, sequential) ==
    [record |-> e,
     held   |-> /\ \E k \in 1..Len(sequential) : sequential[k] = e
                /\ \E k \in 1..Len(Bucket(by_type, e.event_type)) :
                       by_type[e.event_type][k] = e
                /\ \E k \in 1..Len(Bucket(by_id, e.id_)) : by_id[e.id_][k] = e]

\* a slip of SentAfter: a failed call is made once more
SentAfter_retry(calls, attempt, fault) ==
    IF fault = "none" THEN Append(calls, attempt) ELSE calls \o <<attempt, attempt>>

\* the calls of log_to_mongodb after one more: a notification calls it once,
\* and it posts once, whatever comes of it
SentAfter(calls, attempt, fault) == Append(calls, attempt)

(***************************************************************************)
(* _get_event_pairs                                                        *)
(***************************************************************************)
\* a slip of GroupById: every event starts a group of its own
GroupById_each(events, pairs) == pairs \o [k \in 1..Len(events) |-> <<events[k]>>]

\* the loop "for event in events: event_pairs[event.id_].append(event)";
\* pairs is event_pairs.values(), which a dict keeps in the order its keys
\* were first inserted
RECURSIVE GroupById(_, _)
GroupById(events, pairs) ==
    IF events = <<>> THEN pairs
    ELSE LET e   == Head(events)
             hit == {i \in 1..Len(pairs) : pairs[i][1].id_ = e.id_}
         IN  GroupById(Tail(events),
                       IF hit = {} THEN Append(pairs, <<e>>)
                       ELSE [pairs EXCEPT ![CHOOSE i \in hit : TRUE] = Append(@, e)])

\* a slip of PairSortKey: key=lambda x: x[0].time, the string itself, which
\* orders by month, day, year, hour, minute, second, microsecond
PairSortKey_string(x) ==
    LET s == x[1].time
    IN  [days |-> (s[1] * 100 + s[2]) * 10000 + s[3],
         secs |-> s[4] * 3600 + s[5] * 60 + s[6],
         us   |-> s[7]]

\* key=lambda x: datetime.strptime(x[0].time, TIMESTAMP_FORMAT)
PairSortKey(x) == strptime(x[1].time)

\* one element put into an already sorted list, behind every element whose
\* key is not greater: sorted() is stable
InsertSorted(sorted, x) ==
    LET later == {i \in 1..Len(sorted) : DatetimeLess(PairSortKey(x), PairSortKey(sorted[i]))}
        at    == IF later = {} THEN Len(sorted) + 1
                 ELSE CHOOSE i \in later : \A j \in later : i <= j
    IN  SubSeq(sorted, 1, at - 1) \o <<x>> \o SubSeq(sorted, at, Len(sorted))

RECURSIVE SortedByKey(_, _)
SortedByKey(todo, sorted) ==
    IF todo = <<>> THEN sorted
    ELSE SortedByKey(Tail(todo), InsertSorted(sorted, Head(todo)))

_get_event_pairs(events) == SortedByKey(GroupById(events, <<>>), <<>>)

(***************************************************************************)
(* _get_time_stats_from_event_pairs: seconds are counted in microseconds,  *)
(* the quotient total_secs / len(event_pairs) is kept as a fraction.       *)
(***************************************************************************)
\* (end_time - start_time).total_seconds() of one pair
PairSeconds(event_pair) ==
    TotalSeconds(strptime(event_pair[Len(event_pair)].time), strptime(event_pair[1].time))

RECURSIVE SumSeconds(_)
SumSeconds(event_pairs) ==
    IF event_pairs = <<>> THEN 0
    ELSE PairSeconds(Head(event_pairs)) + SumSeconds(Tail(event_pairs))

\* a slip of StatsDivisor: only the pairs that have an end are counted
StatsDivisor_complete(event_pairs) ==
    Cardinality({i \in 1..Len(event_pairs) : Len(event_pairs[i]) >= 2})

\* the divisor of average_secs
StatsDivisor(event_pairs) == Len(event_pairs)

\* <<"raise", exception>> or <<"value", EventStats>>
_get_time_stats_from_event_pairs(event_pairs) ==
    LET total_secs == SumSeconds(event_pairs)
    IN  IF StatsDivisor(event_pairs) = 0 THEN <<"raise", "ZeroDivisionError">>
        ELSE <<"value", [total_secs   |-> total_secs,
                         average_secs |-> [num |-> total_secs, den |-> StatsDivisor(event_pairs)],
                         total_count  |-> Len(event_pairs)]>>

(***************************************************************************)
(* The trace map: the mapping object self._trace_map refers to, of kind    *)
(* "defaultdict" (a defaultdict(list)) or "dict", with its entries m.      *)
(***************************************************************************)
\* defaultdict(list)
NewTraceMap == [kind |-> "defaultdict", m |-> EmptyDict]

TreeEntries == (BASE_TRACE_EVENT :> <<"a">>) @@ ("a" :> <<"b", "c">>)

\* the mappings a caller hands to end_trace: a plain dict that lists only
\* the nodes that have children, the same entries in a defaultdict(list) (what
\* a callback manager keeps), an empty dict, a map whose node a is its own child
PlainTree   == [kind |-> "dict",        m |-> TreeEntries]
DefaultTree == [kind |-> "defaultdict", m |-> TreeEntries]
EmptyPlain  == [kind |-> "dict",        m |-> EmptyDict]
CyclicTree  == [kind |-> "defaultdict", m |-> (BASE_TRACE_EVENT :> <<"a">>) @@ ("a" :> <<"a">>)]

\* trace_map=None, the default
NoTraceMap  == [kind |-> None, m |-> EmptyDict]

TraceMapArgs == {NoTraceMap, PlainTree, DefaultTree, EmptyPlain, CyclicTree}

\* a slip of TraceMapOrNew: the supplied mapping is dropped
TraceMapOrNew_dropped(trace_map) == NewTraceMap

\* "trace_map or defaultdict(list)": None and an empty mapping are falsy
TraceMapOrNew(trace_map) ==
    IF trace_map.kind = None THEN NewTraceMap
    ELSE IF DOMAIN trace_map.m = {} THEN NewTraceMap
    ELSE trace_map

(***************************************************************************)
(* _print_trace_map: st is what the walk reads and writes, by_id           *)
(* (self._event_pairs_by_id), tm (self._trace_map), out (the lines         *)
(* printed so far) and raised (the exception under way, or None).          *)
(***************************************************************************)
\* the printed line of a node: the indent, the type of its first event, the seconds
NodeLine(event_pair, level) ==
    <<"|_", level * 2, event_pair[1].event_type,
      _get_time_stats_from_event_pairs(<<event_pair>>)[2].total_secs>>

\* child_event_ids = self._trace_map[cur_event_id]: a plain dict raises
\* KeyError on a key it does not hold
TraceMapLookupFails(tm, cur_event_id) ==
    tm.kind = "dict" /\ cur_event_id \notin DOMAIN tm.m

RECURSIVE _print_trace_map(_, _, _)
RECURSIVE PrintChildren(_, _, _)
_print_trace_map(st, cur_event_id, level) ==
    IF level > RecursionLimit THEN [st EXCEPT !.raised = "RecursionError"]
    ELSE
    LET by_id      == Touch(st.by_id, cur_event_id)
        event_pair == by_id[cur_event_id]
        printed    == IF event_pair # <<>> THEN Append(st.out, NodeLine(event_pair, level))
                      ELSE st.out
    IN  IF TraceMapLookupFails(st.tm, cur_event_id)
        THEN [st EXCEPT !.by_id = by_id, !.out = printed, !.raised = "KeyError"]
        ELSE LET tm == [st.tm EXCEPT !.m = Touch(@, cur_event_id)]
             IN  PrintChildren([st EXCEPT !.by_id = by_id, !.out = printed, !.tm = tm],
                               tm.m[cur_event_id], level + 1)

\* for child_event_id in child_event_ids: self._print_trace_map(child_event_id, level + 1)
PrintChildren(st, child_event_ids, level) ==
    IF child_event_ids = <<>> \/ st.raised # None THEN st
    ELSE PrintChildren(_print_trace_map(st, Head(child_event_ids), level),
                       Tail(child_event_ids), level)

\* print_trace_map: the two header lines, the walk from BASE_TRACE_EVENT at
\* level 1, and the closing line unless the walk raised
print_trace_map(by_id, tm, cur_trace_id) ==
    LET st == _print_trace_map(
                  [by_id |-> by_id, tm |-> tm, raised |-> None,
                   out |-> << <<"*">>, <<"Trace", cur_trace_id>> >>],
                  BASE_TRACE_EVENT, 1)
    IN  IF st.raised = None THEN [st EXCEPT !.out = Append(@, <<"*">>)] ELSE st

(***************************************************************************)
(* The handler's state and its calls, each one atomic: the calling         *)
(* convention is synchronous, one callback at a time.                      *)
(***************************************************************************)
Fields ==
    [by_type      |-> _event_pairs_by_type,
     by_id        |-> _event_pairs_by_id,
     sequential   |-> _sequential_events,
     trace_map    |-> _trace_map,
     cur_trace_id |-> _cur_trace_id]

OptionalTypes == CBEventTypes \cup {None}

\* __init__
Init ==
    /\ _event_pairs_by_type = EmptyDict
    /\ _event_pairs_by_id = EmptyDict
    /\ _sequential_events = <<>>
    /\ _cur_trace_id = None
    /\ _trace_map = NewTraceMap
    /\ print_trace_on_end \in BOOLEAN
    /\ last = <<"__init__">>
    /\ outcome = "return"
    /\ ret = <<"none">>
    /\ out = <<>>
    /\ sink = "none"
    /\ inserted = <<>>
    /\ sent = <<>>
    /\ experiment_id = None
    /\ before = [by_type |-> EmptyDict, by_id |-> EmptyDict, sequential |-> <<>>,
                 trace_map |-> NewTraceMap, cur_trace_id |-> None]
    /\ pc = "idle"
    /\ event = NoEvent

\* the handler as constructed with the default print_trace_on_end=True
InitDefault == Init /\ print_trace_on_end

\* the call name(args) ended with outcome oc, returned r and printed lines;
\* how_sent is how its send to the remote log ended and e the CBEvent it built
Completed(call, oc, r, lines, how_sent, e) ==
    /\ last' = call
    /\ outcome' = oc
    /\ ret' = r
    /\ out' = lines
    /\ sink' = how_sent
    /\ event' = e
    /\ before' = Fields

\* a slip of on_event_end: the trace map is left as it is
TraceMapAfterEventEnd_kept == _trace_map

\* self._trace_map after on_event_end's last statement
TraceMapAfterEventEnd == NewTraceMap

\* on_event_start(event_type, payload, event_id, parent_id): now is the clock
\* reading CBEvent takes, fault what happens to the send
on_event_start(event_type, payload, event_id, now, fault) ==
    LET e      == CBEvent(event_type, payload, now, event_id)
        raised == log_to_mongodb(fault)
    IN  /\ pc = "idle"
        /\ Len(_sequential_events) < MaxLog
        /\ Len(inserted) < MaxLog
        /\ _event_pairs_by_type' = AppendByType(_event_pairs_by_type, e)
        /\ _event_pairs_by_id' = AppendById(_event_pairs_by_id, e)
        /\ _sequential_events' = AppendSequential(_sequential_events, e)
        /\ inserted' = Append(inserted, e)
        /\ sent' = SentAfter(sent,
                             SendAttempt(e, _event_pairs_by_type', _event_pairs_by_id',
                                         _sequential_events'),
                             fault)
        /\ IF raised = None
           THEN Completed(<<"on_event_start">>, "return", <<"id", e.id_>>, <<>>,
                          SinkResult(fault), e)
           ELSE Completed(<<"on_event_start">>, raised, <<"none">>, <<>>,
                          SinkResult(fault), e)
        /\ UNCHANGED <<_cur_trace_id, _trace_map, print_trace_on_end, experiment_id, pc>>

\* on_event_end(event_type, payload, event_id)
on_event_end(event_type, payload, event_id, now, fault) ==
    LET e      == CBEvent(event_type, payload, now, event_id)
        raised == log_to_mongodb(fault)
    IN  /\ pc = "idle"
        /\ Len(_sequential_events) < MaxLog
        /\ Len(inserted) < MaxLog
        /\ _event_pairs_by_type' = AppendByType(_event_pairs_by_type, e)
        /\ _event_pairs_by_id' = AppendById(_event_pairs_by_id, e)
        /\ _sequential_events' = AppendSequential(_sequential_events, e)
        /\ inserted' = Append(inserted, e)
        /\ sent' = SentAfter(sent,
                             SendAttempt(e, _event_pairs_by_type', _event_pairs_by_id',
                                         _sequential_events'),
                             fault)
        /\ _trace_map' = IF raised = None THEN TraceMapAfterEventEnd ELSE _trace_map
        /\ Completed(<<"on_event_end">>, IF raised = None THEN "return" ELSE raised,
                     <<"none">>, <<>>, SinkResult(fault), e)
        /\ UNCHANGED <<_cur_trace_id, print_trace_on_end, experiment_id, pc>>

\* get_events(event_type): the list object itself is returned
get_events(event_type) ==
    /\ pc = "idle"
    /\ IF event_type # None
       THEN /\ _event_pairs_by_type' = Touch(_event_pairs_by_type, event_type)
            /\ Completed(<<"get_events", event_type>>, "return",
                         <<"ref", "_event_pairs_by_type", event_type>>, <<>>, "none", NoEvent)
       ELSE /\ UNCHANGED _event_pairs_by_type
            /\ Completed(<<"get_events", event_type>>, "return",
                         <<"ref", "_sequential_events", None>>, <<>>, "none", NoEvent)
    /\ UNCHANGED <<_event_pairs_by_id, _sequential_events, _cur_trace_id, _trace_map,
                   print_trace_on_end, experiment_id, inserted, sent, pc>>

\* the argument get_event_pairs hands to _get_event_pairs
EventsOfType(by_type, sequential, event_type) ==
    IF event_type # None THEN Bucket(by_type, event_type) ELSE sequential

\* a slip of ByTypeAfterLookup: the pairing takes the events out of the bucket
ByTypeAfterLookup_drained(by_type, event_type) ==
    IF event_type # None THEN (event_type :> <<>>) @@ by_type ELSE by_type

\* self._event_pairs_by_type after a call that looked event_type up in it
ByTypeAfterLookup(by_type, event_type) ==
    IF event_type # None THEN Touch(by_type, event_type) ELSE by_type

\* get_event_pairs(event_type)
get_event_pairs(event_type) ==
    /\ pc = "idle"
    /\ _event_pairs_by_type' = ByTypeAfterLookup(_event_pairs_by_type, event_type)
    /\ Completed(<<"get_event_pairs", event_type>>, "return",
                 <<"value", _get_event_pairs(
                     EventsOfType(_event_pairs_by_type, _sequential_events, event_type))>>,
                 <<>>, "none", NoEvent)
    /\ UNCHANGED <<_event_pairs_by_id, _sequential_events, _cur_trace_id, _trace_map,
                   print_trace_on_end, experiment_id, inserted, sent, pc>>

\* get_llm_inputs_outputs()
get_llm_inputs_outputs ==
    /\ pc = "idle"
    /\ _event_pairs_by_type' = ByTypeAfterLookup(_event_pairs_by_type, "LLM")
    /\ Completed(<<"get_llm_inputs_outputs">>, "return",
                 <<"value", _get_event_pairs(
                     EventsOfType(_event_pairs_by_type, _sequential_events, "LLM"))>>,
                 <<>>, "none", NoEvent)
    /\ UNCHANGED <<_event_pairs_by_id, _sequential_events, _cur_trace_id, _trace_map,
                   print_trace_on_end, experiment_id, inserted, sent, pc>>

\* get_event_time_info(event_type)
get_event_time_info(event_type) ==
    LET event_pairs == _get_event_pairs(
                           EventsOfType(_event_pairs_by_type, _sequential_events, event_type))
        stats       == _get_time_stats_from_event_pairs(event_pairs)
    IN  /\ pc = "idle"
        /\ _event_pairs_by_type' = ByTypeAfterLookup(_event_pairs_by_type, event_type)
        /\ IF stats[1] = "raise"
           THEN Completed(<<"get_event_time_info", event_type>>, stats[2], <<"none">>,
                          <<>>, "none", NoEvent)
           ELSE Completed(<<"get_event_time_info", event_type>>, "return", stats,
                          <<>>, "none", NoEvent)
        /\ UNCHANGED <<_event_pairs_by_id, _sequential_events, _cur_trace_id, _trace_map,
                       print_trace_on_end, experiment_id, inserted, sent, pc>>

\* a slip of flush_event_logs: the by-type view is not replaced
FlushedByType_kept == _event_pairs_by_type

\* the three assignments of flush_event_logs
FlushedByType == EmptyDict
FlushedById == EmptyDict
FlushedSequential == <<>>

\* flush_event_logs()
flush_event_logs ==
    /\ pc = "idle"
    /\ _event_pairs_by_type' = FlushedByType
    /\ _event_pairs_by_id' = FlushedById
    /\ _sequential_events' = FlushedSequential
    /\ inserted' = <<>>
    /\ sent' = <<>>
    /\ Completed(<<"flush_event_logs">>, "return", <<"none">>, <<>>, "none", NoEvent)
    /\ UNCHANGED <<_cur_trace_id, _trace_map, print_trace_on_end, experiment_id, pc>>

\* start_trace(trace_id)
start_trace(trace_id) ==
    /\ pc = "idle"
    /\ _trace_map' = NewTraceMap
    /\ _cur_trace_id' = trace_id
    /\ Completed(<<"start_trace", trace_id>>, "return", <<"none">>, <<>>, "none", NoEvent)
    /\ UNCHANGED <<_event_pairs_by_type, _event_pairs_by_id, _sequential_events,
                   print_trace_on_end, experiment_id, inserted, sent, pc>>

\* end_trace(trace_id, trace_map): trace_id is not used
end_trace(trace_id, trace_map) ==
    LET installed == TraceMapOrNew(trace_map)
        st        == print_trace_map(_event_pairs_by_id, installed, _cur_trace_id)
    IN  /\ pc = "idle"
        /\ IF print_trace_on_end
           THEN /\ _trace_map' = st.tm
                /\ _event_pairs_by_id' = st.by_id
                /\ Completed(<<"end_trace", trace_map>>,
                             IF st.raised = None THEN "return" ELSE st.raised,
                             <<"none">>, st.out, "none", NoEvent)
           ELSE /\ _trace_map' = installed
                /\ UNCHANGED _event_pairs_by_id
                /\ Completed(<<"end_trace", trace_map>>, "return", <<"none">>, <<>>,
                             "none", NoEvent)
        /\ UNCHANGED <<_event_pairs_by_type, _sequential_events, _cur_trace_id,
                       print_trace_on_end, experiment_id, inserted, sent, pc>>

\* print_trace_map()
PrintTraceMap ==
    LET st == print_trace_map(_event_pairs_by_id, _trace_map, _cur_trace_id)
    IN  /\ pc = "idle"
        /\ _trace_map' = st.tm
        /\ _event_pairs_by_id' = st.by_id
        /\ Completed(<<"print_trace_map">>, IF st.raised = None THEN "return" ELSE st.raised,
                     <<"none">>, st.out, "none", NoEvent)
        /\ UNCHANGED <<_event_pairs_by_type, _sequential_events, _cur_trace_id,
                       print_trace_on_end, experiment_id, inserted, sent, pc>>

\* the properties event_pairs_by_type, events_pairs_by_id, sequential_events
\* return the field's own object
Property(field) ==
    /\ pc = "idle"
    /\ Completed(<<"property", field>>, "return", <<"ref", field, None>>, <<>>,
                 "none", NoEvent)
    /\ UNCHANGED <<_event_pairs_by_type, _event_pairs_by_id, _sequential_events,
                   _cur_trace_id, _trace_map, print_trace_on_end, experiment_id, inserted,
                   sent, pc>>

event_pairs_by_type == Property("_event_pairs_by_type")
events_pairs_by_id == Property("_event_pairs_by_id")
sequential_events == Property("_sequential_events")

(***************************************************************************)
(* The callers.  A specification fixes the values its callers pass and     *)
(* the calls they make; the handler is the same in all of them.            *)
(***************************************************************************)
Notify(types, ids, clock, faults) ==
    \E event_type \in types, payload \in Payloads, event_id \in ids,
       now \in clock, fault \in faults :
        \/ on_event_start(event_type, payload, event_id, now, fault)
        \/ on_event_end(event_type, payload, event_id, now, fault)

Read ==
    \/ \E event_type \in OptionalTypes :
        \/ get_events(event_type)
        \/ get_event_pairs(event_type)
        \/ get_event_time_info(event_type)
    \/ get_llm_inputs_outputs
    \/ event_pairs_by_type
    \/ events_pairs_by_id
    \/ sequential_events

Trace ==
    \/ \E trace_id \in TraceIds \cup {None} : start_trace(trace_id)
    \/ \E trace_map \in TraceMapArgs : end_trace(None, trace_map)
    \/ PrintTraceMap

\* The index: notifications of every type and id at one clock reading, every
\* read, the flush.
Next ==
    \/ Notify(CBEventTypes, EventIds, {T1}, {"none"})
    \/ Read
    \/ flush_event_logs

Spec == InitDefault /\ [][Next]_vars

\* Traces: notifications with every outcome of the send, the trace
\* boundaries, the rendering, the flush.
NextTrace ==
    \/ Notify({"LLM"}, EventIds, {T1}, SendFaults)
    \/ Trace
    \/ flush_event_logs

SpecTrace == Init /\ [][NextTrace]_vars

\* Pairing and statistics: notifications at every clock reading, the reads
\* that pair.
NextPairs ==
    \/ Notify({"LLM"}, EventIds, Clock, {"none"})
    \/ \E event_type \in OptionalTypes :
        \/ get_event_pairs(event_type)
        \/ get_event_time_info(event_type)
    \/ get_llm_inputs_outputs

SpecPairs == InitDefault /\ [][NextPairs]_vars

(***************************************************************************)
(* A caller that changes the list get_events handed it: the list is the    *)
(* handler's own object, so the change is a change of the handler's field. *)
(***************************************************************************)
ListMutations == {"clear", "pop", "append"}

\* the list after the caller's events.clear(), events.pop() or events.append(x)
Mutated(events, how, x) ==
    CASE how = "clear"  -> <<>>
      [] how = "pop"    -> SubSeq(events, 1, Len(events) - 1)
      [] how = "append" -> Append(events, x)

\* the caller changes the list the last call, a get_events, returned
CallerMutates(how, x) ==
    /\ pc = "idle"
    /\ last[1] = "get_events"
    /\ ret[1] = "ref"
    /\ how = "pop" => EventsOfType(_event_pairs_by_type, _sequential_events, ret[3]) # <<>>
    /\ how = "append" =>
        Len(EventsOfType(_event_pairs_by_type, _sequential_events, ret[3])) < MaxLog
    /\ IF ret[2] = "_sequential_events"
       THEN /\ _sequential_events' = Mutated(_sequential_events, how, x)
            /\ UNCHANGED _event_pairs_by_type
       ELSE /\ _event_pairs_by_type' =
                   [_event_pairs_by_type EXCEPT ![ret[3]] = Mutated(@, how, x)]
            /\ UNCHANGED _sequential_events
    /\ last' = <<"caller", how>>
    /\ before' = Fields
    /\ UNCHANGED <<_event_pairs_by_id, _cur_trace_id, _trace_map, print_trace_on_end,
                   experiment_id, outcome, ret, out, sink, inserted, sent, pc, event>>

NextAlias ==
    \/ Notify({"LLM"}, {"a", "b"}, {T1}, {"none"})
    \/ \E event_type \in {None, "LLM"} : get_events(event_type)
    \/ flush_event_logs
    \/ \E how \in ListMutations : CallerMutates(how, CBEvent("LLM", None, T1, "c"))

SpecAlias == InitDefault /\ [][NextAlias]_vars

(***************************************************************************)
(* set_experiment_id: the id is cut from the decimal digits of the         *)
(* millisecond timestamp followed by those of the random number.  A string *)
(* of digits is the sequence of its digits.                                *)
(***************************************************************************)
\* str(n) for an int n >= 0
RECURSIVE str(_)
str(n) == IF n < 10 THEN <<n>> ELSE str(n \div 10) \o <<n % 10>>

\* readings of time.time(), <<whole seconds, milliseconds>>: a clock that
\* started at the epoch a second, twenty minutes or three hours ago, and a
\* clock set to the year 2023
TimeReadings ==
    {<<1, 0>>, <<1, 999>>, <<1234, 567>>, <<12345, 678>>,
     <<1700000000, 0>>, <<1700000000, 999>>}

\* values of random.randint(100000, 999999)
RandomParts == {100000, 123456, 999999}

\* f"{timestamp}" for timestamp = int(time.time() * 1000), that is
\* seconds * 1000 + milliseconds: the digits of the seconds, then the
\* milliseconds on three digits
TimestampStr(now) ==
    IF now[1] = 0 THEN str(now[2])
    ELSE str(now[1]) \o <<now[2] \div 100, (now[2] \div 10) % 10, now[2] % 10>>

\* a slip of FirstEight: unique_id[-8:]
FirstEight_tail(unique_id) ==
    SubSeq(unique_id, IF Len(unique_id) < 8 THEN 1 ELSE Len(unique_id) - 7, Len(unique_id))

\* unique_id[:8]
FirstEight(unique_id) ==
    SubSeq(unique_id, 1, IF Len(unique_id) < 8 THEN Len(unique_id) ELSE 8)

\* f"{timestamp}{random_part}"[:8]
UniqueId(now, random_part) == FirstEight(TimestampStr(now) \o str(random_part))

\* set_experiment_id(): now is the reading of the clock, random_part the
\* random number drawn; the id is stored, printed and returned
set_experiment_id(now, random_part) ==
    LET unique_id == UniqueId(now, random_part)
    IN  /\ pc = "idle"
        /\ experiment_id' = unique_id
        /\ Completed(<<"set_experiment_id", now, random_part>>, "return",
                     <<"value", unique_id>>, << <<"Experiment ID", unique_id>> >>,
                     "none", NoEvent)
        /\ UNCHANGED <<_event_pairs_by_type, _event_pairs_by_id, _sequential_events,
                       _cur_trace_id, _trace_map, print_trace_on_end, inserted, sent, pc>>

\* The session identifier: it is drawn at any time between notifications.
NextId ==
    \/ \E now \in TimeReadings, random_part \in RandomParts :
        set_experiment_id(now, random_part)
    \/ Notify({"LLM"}, {"a", "b"}, {T1}, {"none"})
    \/ flush_event_logs

SpecId == InitDefault /\ [][NextId]_vars

(***************************************************************************)
(* A caller that changes the mapping it passed to end_trace: end_trace     *)
(* keeps the object itself (line 257), so the change is a change of        *)
(* self._trace_map.                                                        *)
(***************************************************************************)
MapMutations == {"clear", "setitem"}

\* the mapping after the caller's trace_map.clear() or trace_map["root"] = ["c"]
MutatedMap(m, how) ==
    CASE how = "clear"   -> EmptyDict
      [] how = "setitem" -> (BASE_TRACE_EVENT :> <<"c">>) @@ m

\* the caller changes the mapping the last call, an end_trace, installed
CallerMutatesMap(how) ==
    /\ pc = "idle"
    /\ last[1] = "end_trace"
    /\ TraceMapOrNew(last[2]) = last[2]
    /\ _trace_map' = [_trace_map EXCEPT !.m = MutatedMap(@, how)]
    /\ last' = <<"caller", how>>
    /\ before' = Fields
    /\ UNCHANGED <<_event_pairs_by_type, _event_pairs_by_id, _sequential_events,
                   _cur_trace_id, print_trace_on_end, experiment_id, outcome, ret, out,
                   sink, inserted, sent, pc, event>>

NextOwn ==
    \/ Notify({"LLM"}, {"a"}, {T1}, {"none"})
    \/ Trace
    \/ flush_event_logs
    \/ \E how \in MapMutations : CallerMutatesMap(how)

SpecOwn == InitDefault /\ [][NextOwn]_vars

(***************************************************************************)
(* Threads: one thread delivers the notifications and the flush, statement *)
(* by statement (pc is the line it executes next); another thread reads    *)
(* the three views between any two statements.  No lock is taken anywhere  *)
(* in the handler.                                                         *)
(***************************************************************************)
\* line 121 / 146: the CBEvent is built
BuildEvent(name, event_type, payload, event_id, now) ==
    /\ pc = "idle"
    /\ Len(_sequential_events) < MaxLog
    /\ Len(inserted) < MaxLog
    /\ event' = CBEvent(event_type, payload, now, event_id)
    /\ pc' = IF name = "on_event_start" THEN "122" ELSE "147"
    /\ before' = Fields
    /\ UNCHANGED <<_event_pairs_by_type, _event_pairs_by_id, _sequential_events,
                   _cur_trace_id, _trace_map, print_trace_on_end, experiment_id, last,
                   outcome, ret, out, sink, inserted, sent>>

\* line 122 / 147
StepAppendByType ==
    /\ pc \in {"122", "147"}
    /\ _event_pairs_by_type' = AppendByType(_event_pairs_by_type, event)
    /\ pc' = IF pc = "122" THEN "123" ELSE "148"
    /\ UNCHANGED <<_event_pairs_by_id, _sequential_events, _cur_trace_id, _trace_map,
                   print_trace_on_end, experiment_id, last, outcome, ret, out, sink,
                   inserted, sent, before, event>>

\* line 123 / 148
StepAppendById ==
    /\ pc \in {"123", "148"}
    /\ _event_pairs_by_id' = AppendById(_event_pairs_by_id, event)
    /\ pc' = IF pc = "123" THEN "124" ELSE "149"
    /\ UNCHANGED <<_event_pairs_by_type, _sequential_events, _cur_trace_id, _trace_map,
                   print_trace_on_end, experiment_id, last, outcome, ret, out, sink,
                   inserted, sent, before, event>>

\* line 124 / 149
StepAppendSequential ==
    /\ pc \in {"124", "149"}
    /\ _sequential_events' = AppendSequential(_sequential_events, event)
    /\ inserted' = Append(inserted, event)
    /\ pc' = IF pc = "124" THEN "127" ELSE "151"
    /\ UNCHANGED <<_event_pairs_by_type, _event_pairs_by_id, _cur_trace_id, _trace_map,
                   print_trace_on_end, experiment_id, last, outcome, ret, out, sink,
                   sent, before, event>>

\* lines 127-129 / 151-153: the send, then the return
StepSendAndReturn(fault) ==
    /\ pc \in {"127", "151"}
    /\ log_to_mongodb(fault) = None
    /\ _trace_map' = IF pc = "151" THEN TraceMapAfterEventEnd ELSE _trace_map
    /\ last' = IF pc = "127" THEN <<"on_event_start">> ELSE <<"on_event_end">>
    /\ outcome' = "return"
    /\ ret' = IF pc = "127" THEN <<"id", event.id_>> ELSE <<"none">>
    /\ out' = <<>>
    /\ sink' = SinkResult(fault)
    /\ sent' = SentAfter(sent,
                         SendAttempt(event, _event_pairs_by_type, _event_pairs_by_id,
                                     _sequential_events),
                         fault)
    /\ pc' = "idle"
    /\ UNCHANGED <<_event_pairs_by_type, _event_pairs_by_id, _sequential_events,
                   _cur_trace_id, print_trace_on_end, experiment_id, inserted, before,
                   event>>

\* line 242
StepFlushByType ==
    /\ pc = "idle"
    /\ _event_pairs_by_type' = FlushedByType
    /\ pc' = "243"
    /\ before' = Fields
    /\ event' = NoEvent
    /\ UNCHANGED <<_event_pairs_by_id, _sequential_events, _cur_trace_id, _trace_map,
                   print_trace_on_end, experiment_id, last, outcome, ret, out, sink,
                   inserted, sent>>

\* line 243
StepFlushById ==
    /\ pc = "243"
    /\ _event_pairs_by_id' = FlushedById
    /\ pc' = "244"
    /\ UNCHANGED <<_event_pairs_by_type, _sequential_events, _cur_trace_id, _trace_map,
                   print_trace_on_end, experiment_id, last, outcome, ret, out, sink,
                   inserted, sent, before, event>>

\* line 244, and the return
StepFlushSequential ==
    /\ pc = "244"
    /\ _sequential_events' = FlushedSequential
    /\ inserted' = <<>>
    /\ sent' = <<>>
    /\ last' = <<"flush_event_logs">>
    /\ outcome' = "return"
    /\ ret' = <<"none">>
    /\ out' = <<>>
    /\ sink' = "none"
    /\ pc' = "idle"
    /\ UNCHANGED <<_event_pairs_by_type, _event_pairs_by_id, _cur_trace_id, _trace_map,
                   print_trace_on_end, experiment_id, before, event>>

\* the reading thread looks at the three views (the properties
\* event_pairs_by_type, events_pairs_by_id, sequential_events) at one instant
ReaderLooks ==
    /\ last' = <<"reader">>
    /\ outcome' = "return"
    /\ ret' = <<"value", [by_type    |-> _event_pairs_by_type,
                          by_id      |-> _event_pairs_by_id,
                          sequential |-> _sequential_events]>>
    /\ UNCHANGED <<_event_pairs_by_type, _event_pairs_by_id, _sequential_events,
                   _cur_trace_id, _trace_map, print_trace_on_end, experiment_id, out, sink,
                   inserted, sent, before, pc, event>>

NextThreads ==
    \/ \E name \in {"on_event_start", "on_event_end"}, event_type \in CBEventTypes,
          payload \in Payloads, event_id \in {"a", "b"} :
            BuildEvent(name, event_type, payload, event_id, T1)
    \/ StepAppendByType
    \/ StepAppendById
    \/ StepAppendSequential
    \/ StepSendAndReturn("none")
    \/ StepFlushByType
    \/ StepFlushById
    \/ StepFlushSequential
    \/ ReaderLooks

SpecThreads == InitDefault /\ [][NextThreads]_vars

(***************************************************************************)
(* Properties.                                                             *)
(***************************************************************************)
Notifications == {"on_event_start", "on_event_end"}

WithType(events, t) ==
    LET Test(e) == e.event_type = t IN SelectSeq(events, Test)

WithId(events, i) ==
    LET Test(e) == e.id_ = i IN SelectSeq(events, Test)

\* the by-type and by-id views hold the records of the log, and only them,
\* each bucket in the order of the log
ViewsAgree(by_type, by_id, sequential) ==
    /\ \A t \in DOMAIN by_type \cup CBEventTypes :
        Bucket(by_type, t) = WithType(sequential, t)
    /\ \A i \in DOMAIN by_id \cup EventIds :
        Bucket(by_id, i) = WithId(sequential, i)

\* C1: after any sequence of notifications (since construction or the last
\* flush) the sequential log is the inserted records in notification order,
\* and every by-type and by-id bucket is the subsequence of the log with
\* that type or that id.
Thm_C1 ==
    /\ _sequential_events = inserted
    /\ ViewsAgree(_event_pairs_by_type, _event_pairs_by_id, inserted)

\* three notifications of two types and two ids went in
Witness_C1 ==
    /\ last[1] \in Notifications
    /\ Len(inserted) = 3
    /\ Cardinality({inserted[k].event_type : k \in 1..3}) = 2
    /\ Cardinality({inserted[k].id_ : k \in 1..3}) = 2

\* what get_events(event_type) and get_event_pairs(event_type) return in the
\* current state
EventsNow(event_type) ==
    EventsOfType(_event_pairs_by_type, _sequential_events, event_type)

PairsNow(event_type) == _get_event_pairs(EventsNow(event_type))

\* C2: right after flush_event_logs, and as long as only reads follow it,
\* get_events, get_event_pairs and get_llm_inputs_outputs return an empty
\* list for every argument; right after the flush the three views hold
\* nothing at all.
Thm_C2 ==
    /\ inserted = <<>> =>
        /\ \A t \in OptionalTypes : EventsNow(t) = <<>> /\ PairsNow(t) = <<>>
        /\ \A i \in DOMAIN _event_pairs_by_id : _event_pairs_by_id[i] = <<>>
    /\ last[1] = "flush_event_logs" =>
        /\ _event_pairs_by_type = EmptyDict
        /\ _event_pairs_by_id = EmptyDict
        /\ _sequential_events = <<>>

\* a flush of an index that held records of both types
Witness_C2 ==
    /\ last[1] = "flush_event_logs"
    /\ Len(before.sequential) >= 2
    /\ \A t \in CBEventTypes : Bucket(before.by_type, t) # <<>>

\* C3: when on_event_end has returned, the current trace map is an empty
\* mapping, whatever it was before.
Thm_C3 ==
    last[1] = "on_event_end" =>
        /\ outcome = "return"
        /\ DOMAIN _trace_map.m = {}

\* on_event_end ran while a trace was open and a non-empty map was installed
Witness_C3 ==
    /\ last[1] = "on_event_end"
    /\ before.cur_trace_id # None
    /\ DOMAIN before.trace_map.m # {}

\* the instant a timestamp string denotes: year first, then month, day,
\* hour, minute, second, microsecond
Chrono(s) == <<s[3], s[1], s[2], s[4], s[5], s[6], s[7]>>

RECURSIVE LexLess(_, _)
LexLess(x, y) ==
    /\ x # <<>>
    /\ \/ x[1] < y[1]
       \/ x[1] = y[1] /\ LexLess(Tail(x), Tail(y))

Earlier(s1, s2) == LexLess(Chrono(s1), Chrono(s2))

\* the place in events where id occurs first
FirstIndex(events, id) ==
    CHOOSE k \in 1..Len(events) :
        events[k].id_ = id /\ \A j \in 1..(k - 1) : events[j].id_ # id

\* pairs is the pairing of events the claim describes
PairedRight(events, pairs) ==
    /\ Len(pairs) = Cardinality({events[k].id_ : k \in 1..Len(events)})
    /\ \A g \in 1..Len(pairs) :
        /\ pairs[g] # <<>>
        /\ pairs[g] = WithId(events, pairs[g][1].id_)
    /\ \A g, h \in 1..Len(pairs) :
        g < h =>
            /\ pairs[g][1].id_ # pairs[h][1].id_
            /\ ~Earlier(pairs[h][1].time, pairs[g][1].time)
            /\ pairs[g][1].time = pairs[h][1].time =>
                FirstIndex(events, pairs[g][1].id_) < FirstIndex(events, pairs[h][1].id_)

\* C4: _get_event_pairs returns one group per distinct id, each group the
\* events of that id in input order, the groups in ascending order of the
\* instant of their first event, groups of equal first instant in the order
\* their ids were first met; get_event_pairs returns that pairing of the
\* list it was asked about.
Thm_C4 ==
    /\ \A t \in OptionalTypes : PairedRight(EventsNow(t), PairsNow(t))
    /\ last[1] = "get_event_pairs" =>
        /\ ret[1] = "value"
        /\ PairedRight(EventsOfType(before.by_type, before.sequential, last[2]), ret[2])

\* three ids met with first timestamps [T2, T1, T3] come back as [T1, T2, T3]
Witness_C4 ==
    /\ last = <<"get_event_pairs", None>>
    /\ Len(_sequential_events) = 3
    /\ [k \in 1..3 |-> _sequential_events[k].time] = <<T2, T1, T3>>
    /\ Cardinality({_sequential_events[k].id_ : k \in 1..3}) = 3
    /\ Len(ret[2]) = 3
    /\ [k \in 1..3 |-> ret[2][k][1].time] = <<T1, T2, T3>>

\* C5 as claimed: statistics over zero groups end in NoEventsError and leave
\* the index as it was.
CE_C5 ==
    (/\ last[1] = "get_event_time_info"
     /\ EventsOfType(before.by_type, before.sequential, last[2]) = <<>>) =>
        /\ outcome = "NoEventsError"
        /\ _event_pairs_by_type = before.by_type
        /\ _event_pairs_by_id = before.by_id
        /\ _sequential_events = before.sequential

\* the clock readings in microseconds after the first of them
Micros(s) ==
    CASE s = T1 -> 0
      [] s = T2 -> 1000000
      [] s = T3 -> 4000000

\* last timestamp - first timestamp of a group
Duration(group) == Micros(group[Len(group)].time) - Micros(group[1].time)

RECURSIVE SumDurations(_)
SumDurations(pairs) ==
    IF pairs = <<>> THEN 0 ELSE Duration(Head(pairs)) + SumDurations(Tail(pairs))

\* the events carry timestamps that never decrease along the list
NonDecreasing(events) ==
    \A j, k \in 1..Len(events) : j < k => ~Earlier(events[k].time, events[j].time)

\* stats is what the claim says of the groups pairs
StatsRight(pairs, stats) ==
    /\ stats[1] = "value"
    /\ stats[2].total_count = Len(pairs)
    /\ stats[2].total_secs = SumDurations(pairs)
    /\ stats[2].average_secs.den # 0
    /\ stats[2].average_secs.num * Len(pairs) = SumDurations(pairs) * stats[2].average_secs.den

Thm_C7 ==
    (last[1] \in Notifications /\ sink \notin {"none", "logged"}) =>
        /\ outcome = "return"
        /\ _sequential_events = Append(before.sequential, event)
        /\ _event_pairs_by_type[event.event_type]
               = Append(Bucket(before.by_type, event.event_type), event)
        /\ _event_pairs_by_id[event.id_] = Append(Bucket(before.by_id, event.id_), event)
        /\ last[1] = "on_event_start" => ret = <<"id", event.id_>>
        /\ last[1] = "on_event_end" => DOMAIN _trace_map.m = {}

\* on_event_end with a failed serialisation, called while a map was installed
Witness_C7 ==
    /\ last[1] = "on_event_end"
    /\ sink = "ValidationError"
    /\ DOMAIN before.trace_map.m # {}
    /\ Len(_sequential_events) >= 2

\* the nodes of the walk the claim describes, <<id, level>> in pre-order:
\* a node without an entry in the map m has no children
RECURSIVE Preorder(_, _, _, _)
RECURSIVE PreorderAll(_, _, _, _)
Preorder(m, id, level, fuel) ==
    IF fuel = 0 THEN <<>>
    ELSE << <<id, level>> >> \o PreorderAll(m, Bucket(m, id), level + 1, fuel - 1)

PreorderAll(m, ids, level, fuel) ==
    IF ids = <<>> THEN <<>>
    ELSE Preorder(m, Head(ids), level, fuel) \o PreorderAll(m, Tail(ids), level, fuel)

\* no walk from the root of m goes deeper than m has entries, plus a leaf
Acyclic(m) ==
    LET deep == Cardinality(DOMAIN m) + 2
        walk == Preorder(m, BASE_TRACE_EVENT, 1, deep)
    IN  \A k \in 1..Len(walk) : walk[k][2] < deep

\* the lines the claim expects: one per visited node that has events, two
\* spaces of indent per level
RECURSIVE ExpectedLines(_, _)
ExpectedLines(walk, by_id) ==
    IF walk = <<>> THEN <<>>
    ELSE LET id    == Head(walk)[1]
             level == Head(walk)[2]
             group == Bucket(by_id, id)
         IN  (IF group = <<>> THEN <<>>
              ELSE << <<"|_", 2 * level, group[1].event_type, Duration(group)>> >>)
             \o ExpectedLines(Tail(walk), by_id)

\* the node lines among the printed lines
NodeLines(lines) ==
    LET Test(line) == line[1] = "|_" IN SelectSeq(lines, Test)

\* the last call rendered the trace map
Rendered ==
    \/ last[1] = "print_trace_map"
    \/ last[1] = "end_trace" /\ print_trace_on_end

\* C8 as claimed: a rendering of a map without cycles has printed exactly
\* the lines of the pre-order walk from the root, one for every visited node
\* that has events, each child one level deeper than its parent.
CE_C8 ==
    (Rendered /\ Acyclic(_trace_map.m)) =>
        NodeLines(out) =
            ExpectedLines(Preorder(_trace_map.m, BASE_TRACE_EVENT, 1,
                                   Cardinality(DOMAIN _trace_map.m) + 2),
                          _event_pairs_by_id)

\* C9 as claimed: whatever a caller does to a list get_events returned, the
\* three views of the handler stay as they were.
CE_C9 ==
    last[1] = "caller" =>
        /\ _event_pairs_by_type = before.by_type
        /\ _event_pairs_by_id = before.by_id
        /\ _sequential_events = before.sequential

\* C10 as claimed: whenever the reading thread looks, every record is in the
\* three views or in none of them.
CE_C10 ==
    last[1] = "reader" => ViewsAgree(ret[2].by_type, ret[2].by_id, ret[2].sequential)

\* the maps m1 and m2 give every node the same child list, a node without
\* an entry having none
SameChildren(m1, m2) ==
    \A id \in DOMAIN m1 \cup DOMAIN m2 : Bucket(m1, id) = Bucket(m2, id)

Thm_C12 ==
    [][/\ (last[1] = "get_event_pairs" /\ last' = last) => ret' = ret
       /\ last'[1] = "get_event_pairs" =>
            ret'[2] = _get_event_pairs(
                          EventsOfType(_event_pairs_by_type', _sequential_events', last'[2]))
      ]_vars

\* a get_event_pairs that changed nothing in the handler returned two groups
\* in another order than their ids were first met
Witness_C12 ==
    /\ last = <<"get_event_pairs", "LLM">>
    /\ before = Fields
    /\ Len(ret[2]) = 2
    /\ ret[2][1][1] = _sequential_events[2]
    /\ ret[2][2][1] = _sequential_events[1]

\* C13 as claimed: no rendering ends in the error of a missing entry; a
\* visited node the trace map has no entry for ends its branch.
CE_C13 ==
    Rendered => outcome # "KeyError"

\* C14 as claimed: every rendering ends by itself after finitely many
\* visits; none is cut off by the interpreter's recursion limit.
CE_C14 ==
    Rendered => outcome # "RecursionError"

\* C15 as claimed: a step that is not start_trace or end_trace leaves every
\* node of the trace map its child list.
CE_C15 ==
    [][last'[1] \notin {"start_trace", "end_trace"}
           => SameChildren(_trace_map'.m, _trace_map.m)]_vars

\* the list s is the beginning of the list t
IsPrefix(s, t) == Len(s) <= Len(t) /\ SubSeq(t, 1, Len(s)) = s

\* C16: across every call that is not flush_event_logs the sequential log
\* and every by-type and by-id bucket keep the records they held, unchanged
\* and in place, as a prefix; a notification adds exactly one record, the
\* one it built, at the end of the log, and every other call adds none.
Thm_C16 ==
    [][last'[1] # "flush_event_logs" =>
          /\ IsPrefix(_sequential_events, _sequential_events')
          /\ \A t \in DOMAIN _event_pairs_by_type :
                IsPrefix(_event_pairs_by_type[t], Bucket(_event_pairs_by_type', t))
          /\ \A i \in DOMAIN _event_pairs_by_id :
                IsPrefix(_event_pairs_by_id[i], Bucket(_event_pairs_by_id', i))
          /\ IF last'[1] \in Notifications
             THEN _sequential_events' = Append(_sequential_events, event')
             ELSE _sequential_events' = _sequential_events
      ]_vars

\* a notification added a third record, of an id and a type the index
\* already held records of
Witness_C16 ==
    /\ last[1] \in Notifications
    /\ Len(before.sequential) = 2
    /\ _sequential_events = Append(before.sequential, event)
    /\ Bucket(before.by_id, event.id_) # <<>>
    /\ Bucket(before.by_type, event.event_type) # <<>>

\* C17: the calls of log_to_mongodb made since the last flush are one per
\* inserted record, in the order of the notifications, each made when its
\* record was already in the three views; a notification has made its call
\* when it returns, whether the send succeeded or failed, and a call that is
\* not a notification has made none.
Thm_C17 ==
    /\ Len(sent) = Len(inserted)
    /\ \A k \in 1..Len(sent) : sent[k].record = inserted[k] /\ sent[k].held
    /\ last[1] \in Notifications =>
        /\ outcome = "return"
        /\ sink \in {SinkResult(fault) : fault \in SendFaults}
        /\ sent # <<>>
        /\ sent[Len(sent)].record = event
    /\ last[1] \notin Notifications => sink = "none"

\* the third notification's send failed on the connection; the three records
\* were each handed to log_to_mongodb once
Witness_C17 ==
    /\ last[1] = "on_event_start"
    /\ sink = "ConnectionError"
    /\ Len(sent) = 3
    /\ sent[3].record = event
    /\ _sequential_events[3] = event

\* the number of records in all the groups
RECURSIVE SumLen(_)
SumLen(pairs) == IF pairs = <<>> THEN 0 ELSE Len(Head(pairs)) + SumLen(Tail(pairs))

\* C18: the groups get_event_pairs() returns for the whole log are the
\* non-empty buckets of the by-id view: every group is the bucket of its id,
\* every non-empty bucket is a group, no id has two groups, and the groups
\* together hold each record of the log once.
Thm_C18 ==
    LET pairs == PairsNow(None)
    IN  /\ \A g \in 1..Len(pairs) :
            /\ pairs[g] # <<>>
            /\ pairs[g][1].id_ \in DOMAIN _event_pairs_by_id
            /\ pairs[g] = _event_pairs_by_id[pairs[g][1].id_]
        /\ \A i \in DOMAIN _event_pairs_by_id :
            _event_pairs_by_id[i] # <<>> =>
                \E g \in 1..Len(pairs) : pairs[g] = _event_pairs_by_id[i]
        /\ \A g, h \in 1..Len(pairs) : g # h => pairs[g][1].id_ # pairs[h][1].id_
        /\ \A k \in 1..Len(_sequential_events) :
            Cardinality({<<g, j>> \in (1..Len(pairs)) \X (1..Len(_sequential_events)) :
                            j <= Len(pairs[g]) /\ pairs[g][j] = _sequential_events[k]}) >= 1
        /\ SumLen(pairs) = Len(_sequential_events)
        /\ last = <<"get_event_pairs", None>> => ret[2] = pairs

\* get_event_pairs() returned two groups, one of two records, in another
\* order than the by-id view met their ids
Witness_C18 ==
    /\ last = <<"get_event_pairs", None>>
    /\ Len(_sequential_events) = 3
    /\ Len(ret[2]) = 2
    /\ Len(ret[2][1]) = 2
    /\ ret[2][1][1] = _sequential_events[2]
    /\ ret[2][2] = <<_sequential_events[1]>>

\* the calls of the handler that are neither a notification nor the flush
FrameCalls ==
    {"get_events", "get_event_pairs", "get_llm_inputs_outputs", "get_event_time_info",
     "property", "start_trace", "end_trace", "print_trace_map"}

\* C19 as claimed: a call that is neither a notification nor the flush
\* leaves the three views as they were, the keys of the by-type and by-id
\* views included.
CE_C19 ==
    last[1] \in FrameCalls =>
        /\ DOMAIN _event_pairs_by_type = DOMAIN before.by_type
        /\ DOMAIN _event_pairs_by_id = DOMAIN before.by_id
        /\ _event_pairs_by_type = before.by_type
        /\ _event_pairs_by_id = before.by_id
        /\ _sequential_events = before.sequential

====
